---- MODULE Spec2Model ----
(***************************************************************************)
(* The article processing pipeline of scripts/process.py: an article is    *)
(* loaded, split into chunks, diffed by chunk hash against the metadata    *)
(* stored by its previous pass, the new chunks are vectorized, and the     *)
(* store stage inserts the new embeddings in batches, deletes the removed  *)
(* ones in batches and replaces the article's metadata document.           *)
(*                                                                         *)
(* A coroutine is modelled at the granularity of its awaits on shared      *)
(* state: one action per stage transform, and inside store_article_diff    *)
(* one action per store request.                                           *)
(***************************************************************************)
EXTENDS Integers, Sequences, FiniteSets, TLC

\* -------------------------------------------------------------- bounds
\* Chunk texts of the exhaustive diff check are 1..NumContents.
NumContents == 3
\* Longest chunk list of the exhaustive diff check.
MaxChunks == 3
\* Longest list handed to insert / delete in the batching check.
MaxUnits == 45
\* Passes started in one behaviour of Spec (over all articles).
MaxPasses == 3
\* Articles in the list handed to process_article_metadata.
NumArticles == 3
\* max_items of the pipeline whose items are counted.
MaxItems == 12

\* ------------------------------------------------------------ constants
\* Mutant of insert_batch_size: one short.
insert_batch_size_one_short == 20 - 1

\* process.py:143, the local batch_size of insert_vectored_chunks
insert_batch_size == 20
\* process.py:191, the local batch_size of delete_vectored_chunks
delete_batch_size == 20

\* The article urls (ArticleMetadata.url, the _id of the metadata document).
Urls == {"u1", "u2"}

\* Error codes of a per-document insert_many error.
DOCUMENT_ALREADY_EXISTS == "DOCUMENT_ALREADY_EXISTS"
OTHER_ERROR == "SHRED_DOC_LIMIT_VIOLATION"

\* ------------------------------------------------------ sequences, dicts
Range(s) == {s[i] : i \in DOMAIN s}

Min(a, b) == IF a < b THEN a ELSE b

\* A Python dict: the sequence of its <<key, value>> items in insertion order,
\* no key twice.
keys(d) == {d[i][1] : i \in DOMAIN d}
values(d) == [i \in DOMAIN d |-> d[i][2]]

\* ------------------------------------------------------------ chunk_article
\* hashlib.sha256(chunk).hexdigest(): deterministic and injective on the texts
\* of the model; a digest is not a text.
sha256(content) == <<"sha256", content>>

\* len(chunk): the text named n is n characters long.
length_function(content) == content

\* Chunk(content, ChunkMetadata(index, length, hash)); enumerate() counts from 0.
Chunk(content, idx) ==
    [content  |-> content,
     metadata |-> [index |-> idx, length |-> length_function(content),
                   hash |-> sha256(content)]]

\* The chunks of an article whose text the splitter cuts into `texts`.
chunks_of(texts) == [i \in DOMAIN texts |-> Chunk(texts[i], i - 1)]

hashes_of(chunks) == {chunks[i].metadata.hash : i \in DOMAIN chunks}

\* ------------------------------------------- ChunkedArticleMetadataOnly
\* {chunk.metadata.hash: chunk.metadata for chunk in chunks}: a hash takes its
\* place in the dict at its first chunk and its value from its last.
chunks_metadata_of(chunks) ==
    LET hash(i)  == chunks[i].metadata.hash
        firsts   == SelectSeq([i \in DOMAIN chunks |-> i], LAMBDA i :
                        \A j \in 1..(i - 1) : hash(j) # hash(i))
        last(i)  == CHOOSE j \in DOMAIN chunks :
                        /\ hash(j) = hash(i)
                        /\ \A l \in (j + 1)..Len(chunks) : hash(l) # hash(i)
    IN  [k \in DOMAIN firsts |-> <<hash(firsts[k]), chunks[last(firsts[k])].metadata>>]

\* ChunkedArticleMetadataOnly.from_chunked_article
from_chunked_article(url, chunks) ==
    [_id |-> url, chunks_metadata |-> chunks_metadata_of(chunks)]

\* ------------------------------------------------------------ the store
\* collection.find_one(filter={"_id": x}): the documents found, none or one.
find_one(collection, id) == {doc \in collection : doc._id = id}

\* collection.find_one_and_replace(filter={"_id": x._id}, replacement=x,
\* options={"upsert": True})
find_one_and_replace(collection, doc) ==
    {d \in collection : d._id # doc._id} \cup {doc}

\* collection.delete_many(filter={"_id": {"$in": ids}}): no match is no error.
delete_many(collection, ids) == {d \in collection : d._id \notin ids}

\* ------------------------------------------------------------ calc_chunk_diff
\* The indices of the chunks a snapshot records.
indexes_of(chunks_metadata) == {chunks_metadata[i][2].index : i \in DOMAIN chunks_metadata}

\* Mutant of new_chunks_of: the chunks are compared by index, not by hash.
new_chunks_by_index(chunks, prev_metadata) ==
    SelectSeq(chunks, LAMBDA chunk :
        chunk.metadata.index \notin indexes_of(prev_metadata.chunks_metadata))

\* process.py:85-89
new_chunks_of(chunks, prev_metadata) ==
    SelectSeq(chunks, LAMBDA chunk :
        chunk.metadata.hash \notin keys(prev_metadata.chunks_metadata))

\* Mutant of deleted_chunks_of: the previous hashes are looked up in the
\* previous metadata itself.
deleted_chunks_against_prev(new_metadata, prev_metadata) ==
    SelectSeq(values(prev_metadata.chunks_metadata), LAMBDA chunk_meta :
        chunk_meta.hash \notin keys(prev_metadata.chunks_metadata))

\* Mutant of deleted_chunks_of: the chunks are compared by index, not by hash.
deleted_chunks_by_index(new_metadata, prev_metadata) ==
    SelectSeq(values(prev_metadata.chunks_metadata), LAMBDA chunk_meta :
        chunk_meta.index \notin indexes_of(new_metadata.chunks_metadata))

\* Mutant of deleted_chunks_of: the current metadata is filtered against the
\* previous keys (the two snapshots swapped).
deleted_chunks_of_current(new_metadata, prev_metadata) ==
    SelectSeq(values(new_metadata.chunks_metadata), LAMBDA chunk_meta :
        chunk_meta.hash \notin keys(prev_metadata.chunks_metadata))

\* process.py:91-95
deleted_chunks_of(new_metadata, prev_metadata) ==
    SelectSeq(values(prev_metadata.chunks_metadata), LAMBDA chunk_meta :
        chunk_meta.hash \notin keys(new_metadata.chunks_metadata))

\* Mutant of unchanged_chunks_of: the chunks are compared by index, not by hash.
unchanged_chunks_by_index(chunks, prev_metadata) ==
    SelectSeq(chunks, LAMBDA chunk :
        chunk.metadata.index \in indexes_of(prev_metadata.chunks_metadata))

\* process.py:96-100
unchanged_chunks_of(chunks, prev_metadata) ==
    SelectSeq(chunks, LAMBDA chunk :
        chunk.metadata.hash \in keys(prev_metadata.chunks_metadata))

\* ChunkedArticleDiff: deleted_chunks and unchanged_chunks default to [].
ChunkedArticleDiff(chunks, new, deleted, unchanged) ==
    [chunked_article |-> chunks, new_chunks |-> new,
     deleted_chunks |-> deleted, unchanged_chunks |-> unchanged]

\* Mutant of diff_without_previous: the chunks are returned as unchanged.
diff_without_previous_unchanged(chunks) ==
    [chunked_article |-> chunks, new_chunks |-> <<>>,
     deleted_chunks |-> <<>>, unchanged_chunks |-> chunks]

\* process.py:71-77, the return when find_one found no document
diff_without_previous(chunks) == ChunkedArticleDiff(chunks, chunks, <<>>, <<>>)

\* The value calc_chunk_diff returns for the article `url` with `chunks`, when
\* find_one returned `found`.
chunk_diff_of(url, chunks, found) ==
    IF found = {}
    THEN diff_without_previous(chunks)
    ELSE LET new_metadata  == from_chunked_article(url, chunks)
             prev_metadata == CHOOSE doc \in found : TRUE
         IN  ChunkedArticleDiff(chunks,
                 new_chunks_of(chunks, prev_metadata),
                 deleted_chunks_of(new_metadata, prev_metadata),
                 unchanged_chunks_of(chunks, prev_metadata))

\* ------------------------------------------------------------ vectorize_diff
\* embeddings.get_embeddings: one vector per text, in order.
get_embedding(content) == <<"vector", content>>

\* VectoredChunk(vector, chunked_article, chunk)
VectoredChunk(chunk) == [vector |-> get_embedding(chunk.content), chunk |-> chunk]

\* Mutant of vectored_diff_of: only the new chunks are forwarded as the article.
vectored_diff_of_new_chunks(article_diff) ==
    [chunked_article |-> article_diff.new_chunks,
     new_chunks      |-> [i \in DOMAIN article_diff.new_chunks |->
                             VectoredChunk(article_diff.new_chunks[i])],
     deleted_chunks  |-> article_diff.deleted_chunks]

\* process.py:122-129: the unchanged chunks are not forwarded, the whole
\* chunked article is.
vectored_diff_of(article_diff) ==
    [chunked_article |-> article_diff.chunked_article,
     new_chunks      |-> [i \in DOMAIN article_diff.new_chunks |->
                             VectoredChunk(article_diff.new_chunks[i])],
     deleted_chunks  |-> article_diff.deleted_chunks]

\* EmbeddingDocument.from_vectored_chunk: the document's _id is the chunk hash.
from_vectored_chunk(url, vectored_chunk) ==
    [_id    |-> vectored_chunk.chunk.metadata.hash,
     url    |-> url,
     vector |-> vectored_chunk.vector]

\* ChunkedArticleMetadataOnly.from_vectored_diff
from_vectored_diff(url, vectored_diff) ==
    from_chunked_article(url, vectored_diff.chunked_article)

\* ------------------------------------------------------------------ state
VARIABLES
    METADATA_COLLECTION,     \* the article metadata documents
    EMBEDDING_COLLECTION,    \* the embedding documents
    SUGGESTIONS_COLLECTION,  \* the persisted recent-articles document
    RECENT_ARTICLES,         \* the in-memory recent articles, newest first
    METRICS,                 \* the counters
    pass,                    \* per url: the pass in flight, its stage and locals
    reconciled,              \* per url: the text of its last pass that completed the store stage
    passes,                  \* passes started
    pipeline,                \* the pipeline's item count, queues and tasks, item by item
    feed,                    \* where the loop of process_article_metadata is
    stages                   \* the pipeline's item count, queues and tasks, by number

pipeline_vars == <<pipeline, feed, stages>>

vars == <<METADATA_COLLECTION, EMBEDDING_COLLECTION, SUGGESTIONS_COLLECTION,
          RECENT_ARTICLES, METRICS, pass, reconciled, passes, pipeline, feed, stages>>

\* ------------------------------------------------------------ the pipeline
\* Mutant of STEPS: chunk_article is added before load_article.
STEPS_chunk_first ==
    <<"chunk_article", "load_article", "calc_chunk_diff", "vectorize_diff",
      "store_article_diff">>

\* process.py:254-259: the steps of the pipeline, in the order they are added
STEPS ==
    <<"load_article", "chunk_article", "calc_chunk_diff", "vectorize_diff",
      "store_article_diff">>

\* Mutant of num_tasks: the numbers of load_article and chunk_article swapped.
num_tasks_swapped == <<2, 10, 5, 5, 3>>

\* Mutant of num_tasks: the last step has no task.
num_tasks_no_store == <<10, 2, 5, 5, 0>>

\* process.py:255-259: AsyncStep(func, num_tasks), step by step
num_tasks == <<10, 2, 5, 5, 3>>

\* A pipeline of `max_items` with nothing in it: per step the queue of the
\* items waiting for it and the items its tasks are running, the items
\* through the last step, the failed ones, and per item the events so far.
NewPipeline(max_items, items) ==
    [max_items   |-> max_items,
     items_count |-> 0,
     source      |-> [s \in DOMAIN STEPS |-> <<>>],
     tasks       |-> [s \in DOMAIN STEPS |-> {}],
     completed   |-> {},
     failed      |-> {},
     log         |-> [i \in items |-> <<>>]]

\* The loop of process_article_metadata before its first turn.
NewFeed == [next |-> 1, returned |-> "running", admits |-> <<>>]

\* The same pipeline with its items counted, not named.
NewStages(max_items) ==
    [max_items   |-> max_items,
     items_count |-> 0,
     source      |-> [s \in DOMAIN STEPS |-> 0],
     tasks       |-> [s \in DOMAIN STEPS |-> 0]]

\* No pipeline is looked at.
NoPipeline ==
    /\ pipeline = NewPipeline(0, {})
    /\ feed = NewFeed
    /\ stages = NewStages(0)

EmptyDiff == ChunkedArticleDiff(<<>>, <<>>, <<>>, <<>>)

NoResp == [insertedIds |-> {}, errors |-> <<>>]

\* What is remembered of the article's passes before the one in flight: how
\* the last one ended, its text, the ids it inserted, and whether any aborted.
NoPassBefore == [pc |-> "idle", content |-> <<>>, inserted |-> {}, aborted |-> FALSE]

IdlePass ==
    [pc |-> "idle", content |-> <<>>, chunked_article |-> <<>>,
     article_diff |-> EmptyDiff, vectored_diff |-> vectored_diff_of(EmptyDiff),
     batch_count |-> 0, resp |-> NoResp, requests |-> <<>>,
     recent_articles |-> <<>>, before |-> NoPassBefore]

NoMetrics ==
    [chunks_created |-> 0, chunk_diff_new |-> 0, chunk_diff_deleted |-> 0,
     chunk_diff_unchanged |-> 0, chunks_vectorized |-> 0, articles_read |-> 0,
     chunk_collision |-> 0, chunks_inserted |-> 0, chunks_deleted |-> 0,
     articles_inserted |-> 0, failing |-> FALSE]

NotReconciled == [done |-> FALSE, content |-> <<>>]

Init ==
    /\ METADATA_COLLECTION = {}
    /\ EMBEDDING_COLLECTION = {}
    /\ SUGGESTIONS_COLLECTION = {}
    /\ RECENT_ARTICLES = <<>>
    /\ METRICS = NoMetrics
    /\ pass = [u \in Urls |-> IdlePass]
    /\ reconciled = [u \in Urls |-> NotReconciled]
    /\ passes = 0
    /\ NoPipeline

\* The texts the splitter cuts the versions of each article into, in Spec. The
\* first article is short: one version is empty, the others share a chunk, and
\* one repeats it. The second shares chunks with the first; one version of it
\* fills two insert batches, also after the other version was stored.
LongArticle == [i \in 1..(insert_batch_size + 2) |-> i]
OtherText == insert_batch_size + 3
ARTICLES(u) ==
    IF u = "u1" THEN {<<>>, <<1, 2>>, <<1, 1, 3>>}
                ELSE {<<1, OtherText>>, LongArticle}

\* ------------------------------------------------------------ the metrics
\* METRICS.update_chunks / METRICS.update_database: the counters become
\* `updated`; an update of a failing sink is dropped.
metrics_update(metrics, updated) == IF metrics.failing THEN metrics ELSE updated

\* Mutant of update_raises: the update of a failing sink raises.
update_raises_when_failing(metrics) == metrics.failing

\* Whether `await METRICS.update_*(...)` raises into the transform that awaits
\* it: never, the sink keeps its failures to itself.
update_raises(metrics) == FALSE

\* Where a transform is after an awaited METRICS update: the update's
\* exception, if any, leaves the transform and fails the pass.
after_update(metrics, pc) == IF update_raises(metrics) THEN "failed" ELSE pc

\* The ids the insert requests of a pass put into the collection: those the
\* response reported no error for.
inserted_by(requests) ==
    UNION {Range(requests[k].ids)
               \ {requests[k].errors[i].id : i \in DOMAIN requests[k].errors} :
           k \in {j \in DOMAIN requests : requests[j].op = "insert_many"}}

\* What the next pass of the article remembers of the pass p.
PassBefore(p) ==
    [pc       |-> p.pc,
     content  |-> p.content,
     inserted |-> inserted_by(p.requests),
     aborted  |-> p.before.aborted \/ p.pc = "failed"]

\* ------------------------------------------------------------ the stages
\* process.py:30-32: a pass of the article starts with the text scraped now.
load_article(u) ==
    /\ pass[u].pc \in {"idle", "completed", "failed"}
    /\ passes < MaxPasses
    /\ \E texts \in ARTICLES(u) :
           pass' = [pass EXCEPT ![u] =
                       [IdlePass EXCEPT !.pc = "chunk",
                                        !.content = texts,
                                        !.before = PassBefore(pass[u])]]
    /\ passes' = passes + 1
    /\ UNCHANGED <<METADATA_COLLECTION, EMBEDDING_COLLECTION,
                   SUGGESTIONS_COLLECTION, RECENT_ARTICLES, METRICS, reconciled>>
    /\ UNCHANGED pipeline_vars

\* process.py:35-51
chunk_article(u) ==
    /\ pass[u].pc = "chunk"
    /\ LET chunks == chunks_of(pass[u].content)
       IN  /\ METRICS' = metrics_update(METRICS,
                              [METRICS EXCEPT !.chunks_created = @ + Len(chunks)])
           /\ pass' = [pass EXCEPT ![u].pc = after_update(METRICS, "diff"),
                                   ![u].chunked_article = chunks]
    /\ UNCHANGED <<METADATA_COLLECTION, EMBEDDING_COLLECTION,
                   SUGGESTIONS_COLLECTION, RECENT_ARTICLES, reconciled, passes>>
    /\ UNCHANGED pipeline_vars

\* process.py:54-110
calc_chunk_diff(u) ==
    /\ pass[u].pc = "diff"
    /\ LET chunks == pass[u].chunked_article
           found  == find_one(METADATA_COLLECTION, u)
           diff   == chunk_diff_of(u, chunks, found)
       IN  /\ pass' = [pass EXCEPT ![u].pc = after_update(METRICS, "vectorize"),
                                   ![u].article_diff = diff]
           /\ METRICS' = metrics_update(METRICS,
                  IF found = {}
                  THEN [METRICS EXCEPT !.chunk_diff_new = @ + Len(chunks)]
                  ELSE [METRICS EXCEPT
                           !.articles_read = @ + 1,
                           !.chunk_diff_new = @ + Len(diff.new_chunks),
                           !.chunk_diff_deleted = @ + Len(diff.deleted_chunks),
                           !.chunk_diff_unchanged = @ + Len(diff.unchanged_chunks)])
    /\ UNCHANGED <<METADATA_COLLECTION, EMBEDDING_COLLECTION,
                   SUGGESTIONS_COLLECTION, RECENT_ARTICLES, reconciled, passes>>
    /\ UNCHANGED pipeline_vars

\* process.py:113-129
vectorize_diff(u) ==
    /\ pass[u].pc = "vectorize"
    /\ LET vectored == vectored_diff_of(pass[u].article_diff)
       IN  /\ METRICS' = metrics_update(METRICS,
                              [METRICS EXCEPT
                                  !.chunks_vectorized = @ + Len(vectored.new_chunks)])
           /\ pass' = [pass EXCEPT ![u].pc = after_update(METRICS, "insert"),
                                   ![u].vectored_diff = vectored,
                                   ![u].batch_count = 0]
    /\ UNCHANGED <<METADATA_COLLECTION, EMBEDDING_COLLECTION,
                   SUGGESTIONS_COLLECTION, RECENT_ARTICLES, reconciled, passes>>
    /\ UNCHANGED pipeline_vars

\* ------------------------------------------------------------ batching
\* utils.batch_list(items, batch_size, enumerate_batches=True): the batches of
\* `items` in list order, each of batch_size items but the last, which holds
\* the rest; no batch for an empty list.
batch_total(items, batch_size) == (Len(items) + batch_size - 1) \div batch_size

batch_list(items, batch_size) ==
    [k \in 1..batch_total(items, batch_size) |->
        SubSeq(items, (k - 1) * batch_size + 1, Min(k * batch_size, Len(items)))]

\* ------------------------------------------------------------ insert_many
\* insert_many(documents, options={"ordered": False},
\* partial_failures_allowed=True): every document is tried on its own. One
\* whose _id is in the collection gives a DOCUMENT_ALREADY_EXISTS error, one at
\* a position in `rejected` is refused by the store for another reason, any
\* other is inserted and its _id reported in status.insertedIds.
RECURSIVE insert_many_from(_, _, _, _, _)
insert_many_from(i, documents, rejected, collection, resp) ==
    IF i > Len(documents)
    THEN [collection |-> collection, resp |-> resp]
    ELSE LET doc == documents[i]
         IN  IF i \in rejected
             THEN insert_many_from(i + 1, documents, rejected, collection,
                      [resp EXCEPT !.errors =
                          Append(@, [errorCode |-> OTHER_ERROR, id |-> doc._id])])
             ELSE IF find_one(collection, doc._id) # {}
             THEN insert_many_from(i + 1, documents, rejected, collection,
                      [resp EXCEPT !.errors =
                          Append(@, [errorCode |-> DOCUMENT_ALREADY_EXISTS,
                                     id |-> doc._id])])
             ELSE insert_many_from(i + 1, documents, rejected,
                      collection \cup {doc},
                      [resp EXCEPT !.insertedIds = @ \cup {doc._id}])

insert_many(collection, documents, rejected) ==
    insert_many_from(1, documents, rejected, collection, NoResp)

\* What the store may refuse of one batch: nothing, its first or its last
\* document.
Rejections(documents) == {{}, {1}, {Len(documents)}}

\* process.py:165
exists_errors_of(errors) ==
    SelectSeq(errors, LAMBDA error : error.errorCode = DOCUMENT_ALREADY_EXISTS)

\* Mutant of insert_raises: any error raises.
insert_raises_on_any_error(errors, exists_errors) == Len(errors) # 0

\* Mutant of insert_raises: the errors are looked at only when none of them is
\* DOCUMENT_ALREADY_EXISTS.
insert_raises_unless_exists(errors, exists_errors) ==
    exists_errors = <<>> /\ Len(errors) # 0

\* process.py:179, the condition of the raise
insert_raises(errors, exists_errors) == Len(errors) # Len(exists_errors)

ids_of(documents) == [i \in DOMAIN documents |-> documents[i]._id]

\* ------------------------------------------------------------ store_article_diff
\* process.py:148-183, one turn of the loop of insert_vectored_chunks
insert_vectored_chunks_batch(u) ==
    /\ pass[u].pc = "insert"
    /\ LET vectored_chunks == pass[u].vectored_diff.new_chunks
           batch_count     == pass[u].batch_count
       IN  /\ batch_count < batch_total(vectored_chunks, insert_batch_size)
           /\ LET batch == batch_list(vectored_chunks, insert_batch_size)[batch_count + 1]
                  article_embeddings ==
                      [i \in DOMAIN batch |-> from_vectored_chunk(u, batch[i])]
              IN  \E rejected \in Rejections(article_embeddings) :
                    LET out           == insert_many(EMBEDDING_COLLECTION,
                                                     article_embeddings, rejected)
                        errors        == out.resp.errors
                        exists_errors == exists_errors_of(errors)
                    IN  /\ EMBEDDING_COLLECTION' = out.collection
                        /\ METRICS' =
                               IF exists_errors # <<>>
                               THEN metrics_update(METRICS,
                                        [METRICS EXCEPT
                                            !.chunk_collision = @ + Len(exists_errors)])
                               ELSE METRICS
                        /\ pass' = [pass EXCEPT
                               ![u].resp = out.resp,
                               ![u].requests = Append(@,
                                   [op |-> "insert_many",
                                    ids |-> ids_of(article_embeddings),
                                    errors |-> errors]),
                               ![u].batch_count = batch_count + 1,
                               ![u].pc =
                                   IF exists_errors # <<>> /\ update_raises(METRICS)
                                   THEN "failed"
                                   ELSE IF insert_raises(errors, exists_errors)
                                        THEN "failed" ELSE "insert"]
    /\ UNCHANGED <<METADATA_COLLECTION, SUGGESTIONS_COLLECTION, RECENT_ARTICLES,
                   reconciled, passes>>
    /\ UNCHANGED pipeline_vars

\* process.py:185-187, after the loop
insert_vectored_chunks_end(u) ==
    /\ pass[u].pc = "insert"
    /\ LET vectored_chunks == pass[u].vectored_diff.new_chunks
       IN  /\ pass[u].batch_count = batch_total(vectored_chunks, insert_batch_size)
           /\ METRICS' = metrics_update(METRICS,
                              [METRICS EXCEPT
                                  !.chunks_inserted = @ + Len(vectored_chunks)])
    /\ pass' = [pass EXCEPT ![u].pc = after_update(METRICS, "delete"),
                            ![u].batch_count = 0]
    /\ UNCHANGED <<METADATA_COLLECTION, EMBEDDING_COLLECTION,
                   SUGGESTIONS_COLLECTION, RECENT_ARTICLES, reconciled, passes>>
    /\ UNCHANGED pipeline_vars

\* process.py:195-206, one turn of the loop of delete_vectored_chunks
delete_vectored_chunks_batch(u) ==
    /\ pass[u].pc = "delete"
    /\ LET chunks      == pass[u].vectored_diff.deleted_chunks
           batch_count == pass[u].batch_count
       IN  /\ batch_count < batch_total(chunks, delete_batch_size)
           /\ LET batch  == batch_list(chunks, delete_batch_size)[batch_count + 1]
                  hashes == [i \in DOMAIN batch |-> batch[i].hash]
              IN  /\ EMBEDDING_COLLECTION' =
                         delete_many(EMBEDDING_COLLECTION, Range(hashes))
                  /\ pass' = [pass EXCEPT
                         ![u].requests = Append(@,
                             [op |-> "delete_many", ids |-> hashes,
                              errors |-> <<>>]),
                         ![u].batch_count = batch_count + 1]
    /\ UNCHANGED <<METADATA_COLLECTION, SUGGESTIONS_COLLECTION, RECENT_ARTICLES,
                   METRICS, reconciled, passes>>
    /\ UNCHANGED pipeline_vars

\* process.py:207-209, after the loop
delete_vectored_chunks_end(u) ==
    /\ pass[u].pc = "delete"
    /\ LET chunks == pass[u].vectored_diff.deleted_chunks
       IN  /\ pass[u].batch_count = batch_total(chunks, delete_batch_size)
           /\ METRICS' = metrics_update(METRICS,
                              [METRICS EXCEPT !.chunks_deleted = @ + Len(chunks)])
    /\ pass' = [pass EXCEPT ![u].pc = after_update(METRICS, "upsert"),
                            ![u].batch_count = 0]
    /\ UNCHANGED <<METADATA_COLLECTION, EMBEDDING_COLLECTION,
                   SUGGESTIONS_COLLECTION, RECENT_ARTICLES, reconciled, passes>>
    /\ UNCHANGED pipeline_vars

\* Mutant of update_article_metadata: a metadata document already stored is
\* kept (an insert, not a replace).
update_article_metadata_keeps_stored(u) ==
    /\ pass[u].pc = "upsert"
    /\ LET new_metadata == from_vectored_diff(u, pass[u].vectored_diff)
       IN  METADATA_COLLECTION' =
               IF find_one(METADATA_COLLECTION, u) # {}
               THEN METADATA_COLLECTION
               ELSE METADATA_COLLECTION \cup {new_metadata}
    /\ pass' = [pass EXCEPT ![u].pc = "recent"]
    /\ UNCHANGED <<EMBEDDING_COLLECTION, SUGGESTIONS_COLLECTION, RECENT_ARTICLES,
                   METRICS, reconciled, passes>>
    /\ UNCHANGED pipeline_vars

\* process.py:212-224: the article's metadata document is replaced
update_article_metadata(u) ==
    /\ pass[u].pc = "upsert"
    /\ LET new_metadata == from_vectored_diff(u, pass[u].vectored_diff)
       IN  METADATA_COLLECTION' =
               find_one_and_replace(METADATA_COLLECTION, new_metadata)
    /\ pass' = [pass EXCEPT ![u].pc = "recent"]
    /\ UNCHANGED <<EMBEDDING_COLLECTION, SUGGESTIONS_COLLECTION, RECENT_ARTICLES,
                   METRICS, reconciled, passes>>
    /\ UNCHANGED pipeline_vars

\* The recent articles kept.
RecentSize == 2

\* RecentArticles.update_and_clone's fold: the article goes first, the list
\* is cut to its size.
recent_update(recent, new_metadata) ==
    SubSeq(<<new_metadata._id>> \o recent, 1, Min(Len(recent) + 1, RecentSize))

\* process.py:227: the in-memory recent articles are updated and cloned
update_recent_articles(u) ==
    /\ pass[u].pc = "recent"
    /\ LET new_metadata == from_vectored_diff(u, pass[u].vectored_diff)
       IN  RECENT_ARTICLES' = recent_update(RECENT_ARTICLES, new_metadata)
    /\ pass' = [pass EXCEPT ![u].pc = "suggest",
                            ![u].recent_articles = RECENT_ARTICLES']
    /\ UNCHANGED <<METADATA_COLLECTION, EMBEDDING_COLLECTION,
                   SUGGESTIONS_COLLECTION, METRICS, reconciled, passes>>
    /\ UNCHANGED pipeline_vars

\* process.py:228-236: the clone is persisted, store_article_diff returns
store_recent_articles(u) ==
    /\ pass[u].pc = "suggest"
    /\ SUGGESTIONS_COLLECTION' =
           find_one_and_replace(SUGGESTIONS_COLLECTION,
               [_id |-> "recent_articles",
                recent_articles |-> pass[u].recent_articles])
    /\ METRICS' = metrics_update(METRICS,
                       [METRICS EXCEPT !.articles_inserted = @ + 1])
    /\ pass' = [pass EXCEPT ![u].pc = after_update(METRICS, "completed")]
    /\ reconciled' = [reconciled EXCEPT
                         ![u] = [done |-> TRUE, content |-> pass[u].content]]
    /\ UNCHANGED <<METADATA_COLLECTION, EMBEDDING_COLLECTION, RECENT_ARTICLES,
                   passes>>
    /\ UNCHANGED pipeline_vars

\* process.py:132-136
store_article_diff(u) ==
    \/ insert_vectored_chunks_batch(u)
    \/ insert_vectored_chunks_end(u)
    \/ delete_vectored_chunks_batch(u)
    \/ delete_vectored_chunks_end(u)
    \/ update_article_metadata(u)
    \/ update_recent_articles(u)
    \/ store_recent_articles(u)

\* process.py:253-259: the steps of the pipeline, run for any article
Next ==
    \E u \in Urls :
        \/ load_article(u)
        \/ chunk_article(u)
        \/ calc_chunk_diff(u)
        \/ vectorize_diff(u)
        \/ store_article_diff(u)

Spec == Init /\ [][Next]_vars

\* ------------------------------------------------- the diff, exhaustively
\* Every chunk list of at most MaxChunks texts out of 1..NumContents.
TextLists == UNION {[1..n -> 1..NumContents] : n \in 0..MaxChunks}

\* The embedding documents of an article's chunks.
embeddings_of(u, chunks) ==
    {from_vectored_chunk(u, VectoredChunk(chunks[i])) : i \in DOMAIN chunks}

\* The article u1 is at the diff stage with any chunk list, and the store holds
\* either nothing of it or what a completed pass over any chunk list left.
InitDiff ==
    \E texts \in TextLists, before \in TextLists, done \in BOOLEAN :
        /\ done \/ before = <<>>
        /\ METADATA_COLLECTION =
               IF done THEN {from_chunked_article("u1", chunks_of(before))} ELSE {}
        /\ EMBEDDING_COLLECTION =
               IF done THEN embeddings_of("u1", chunks_of(before)) ELSE {}
        /\ SUGGESTIONS_COLLECTION = {}
        /\ RECENT_ARTICLES = <<>>
        /\ METRICS = NoMetrics
        /\ pass = [u \in Urls |->
                      IF u = "u1"
                      THEN [IdlePass EXCEPT !.pc = "diff", !.content = texts,
                                            !.chunked_article = chunks_of(texts)]
                      ELSE IdlePass]
        /\ reconciled = [u \in Urls |->
                            IF u = "u1" THEN [done |-> done, content |-> before]
                            ELSE NotReconciled]
        /\ passes = 1
        /\ NoPipeline

NextDiff == \E u \in Urls : calc_chunk_diff(u)

SpecDiff == InitDiff /\ [][NextDiff]_vars

\* ------------------------------------------------------- the diff's claims
\* The metadata document the diff of u's pass read, none or one.
PrevDoc(u) == find_one(METADATA_COLLECTION, u)

\* The items <<hash, metadata>> of the previous snapshot (none without one).
PrevItems(u) ==
    IF PrevDoc(u) = {} THEN {}
    ELSE Range((CHOOSE doc \in PrevDoc(u) : TRUE).chunks_metadata)

PrevHashes(u) == {item[1] : item \in PrevItems(u)}

\* u's pass holds the result of calc_chunk_diff, and nothing of the pass has
\* been written yet.
Diffed(u) == pass[u].pc = "vectorize"

\* The k-th smallest member of the set I of indices.
NthOf(I, k) == CHOOSE i \in I : Cardinality({j \in I : j <= i}) = k

\* The members of `chunks` at the indices I, in the order of `chunks`.
Picked(chunks, I) == [k \in 1..Cardinality(I) |-> chunks[NthOf(I, k)]]

\* Claim C1: calc_chunk_diff returns as added exactly the current chunks whose
\* hash is no key of the previous snapshot, as unchanged exactly those whose hash
\* is a key of it, both in the order of the current chunks, and as removed
\* exactly the snapshot's entries whose hash no current chunk has, each once.
C1_DiffIsThePartition ==
    \A u \in Urls : Diffed(u) =>
        LET chunks == pass[u].chunked_article
            diff   == pass[u].article_diff
            absent == {i \in DOMAIN chunks : chunks[i].metadata.hash \notin PrevHashes(u)}
            kept   == DOMAIN chunks \ absent
            gone   == {item[2] : item \in {it \in PrevItems(u) :
                                              it[1] \notin hashes_of(chunks)}}
        IN  /\ diff.new_chunks = Picked(chunks, absent)
            /\ diff.unchanged_chunks = Picked(chunks, kept)
            /\ Range(diff.deleted_chunks) = gone
            /\ Len(diff.deleted_chunks) = Cardinality(gone)

\* C1's case: a diff against a snapshot that finds added, unchanged and removed.
C1_Witness ==
    \E u \in Urls :
        /\ Diffed(u)
        /\ PrevDoc(u) # {}
        /\ pass[u].article_diff.new_chunks # <<>>
        /\ pass[u].article_diff.unchanged_chunks # <<>>
        /\ pass[u].article_diff.deleted_chunks # <<>>

\* Claim C2 as stated: |removed| + |unchanged| = |previous snapshot|, whatever
\* the current chunks are, also when two of them have the same hash.
C2_RemovedPlusUnchanged ==
    \A u \in Urls : Diffed(u) =>
        Len(pass[u].article_diff.deleted_chunks)
            + Len(pass[u].article_diff.unchanged_chunks)
        = Cardinality(PrevHashes(u))

\* Claim C2, amended: |removed| + the number of distinct hashes of unchanged
\* = |previous snapshot|; |unchanged| is that number when no two current chunks
\* have the same hash.
C2_RemovedPlusDistinctUnchanged ==
    \A u \in Urls : Diffed(u) =>
        LET chunks == pass[u].chunked_article
            diff   == pass[u].article_diff
        IN  /\ Len(diff.deleted_chunks)
                   + Cardinality(hashes_of(diff.unchanged_chunks))
               = Cardinality(PrevHashes(u))
            /\ Cardinality(hashes_of(chunks)) = Len(chunks) =>
                   Len(diff.unchanged_chunks)
                       = Cardinality(hashes_of(diff.unchanged_chunks))

\* C2's case: the current chunks repeat a hash of the previous snapshot, and
\* the snapshot loses another.
C2_Witness ==
    \E u \in Urls :
        /\ Diffed(u)
        /\ pass[u].article_diff.deleted_chunks # <<>>
        /\ Len(pass[u].article_diff.unchanged_chunks)
               > Cardinality(hashes_of(pass[u].article_diff.unchanged_chunks))

\* Claim C3: |added| + |unchanged| = |current chunks|, and no hash is both in
\* added and in unchanged.
C3_AddedPlusUnchanged ==
    \A u \in Urls : Diffed(u) =>
        LET diff == pass[u].article_diff
        IN  /\ Len(diff.new_chunks) + Len(diff.unchanged_chunks)
                   = Len(pass[u].chunked_article)
            /\ hashes_of(diff.new_chunks) \cap hashes_of(diff.unchanged_chunks) = {}

\* C3's case: a diff with added and unchanged chunks, one hash repeated.
C3_Witness ==
    \E u \in Urls :
        /\ Diffed(u)
        /\ pass[u].article_diff.new_chunks # <<>>
        /\ pass[u].article_diff.unchanged_chunks # <<>>
        /\ Cardinality(hashes_of(pass[u].chunked_article))
               < Len(pass[u].chunked_article)

\* The second pass of u changes the text of exactly one chunk of the pass
\* reconciled before it: same length, one index differs.
OneChunkChanged(u) ==
    /\ reconciled[u].done
    /\ Len(pass[u].content) = Len(reconciled[u].content)
    /\ Cardinality({i \in DOMAIN pass[u].content :
                       pass[u].content[i] # reconciled[u].content[i]}) = 1

ChangedIndex(u) ==
    CHOOSE i \in DOMAIN pass[u].content :
        pass[u].content[i] # reconciled[u].content[i]

\* The diff of u's pass: one added chunk, the changed one with its new hash, one
\* removed entry, the old hash, and k - 1 unchanged chunks.
OneAddedOneRemoved(u) ==
    LET diff == pass[u].article_diff
        i    == ChangedIndex(u)
    IN  /\ Len(diff.new_chunks) = 1
        /\ diff.new_chunks[1] = Chunk(pass[u].content[i], i - 1)
        /\ Len(diff.deleted_chunks) = 1
        /\ diff.deleted_chunks[1].hash = sha256(reconciled[u].content[i])
        /\ Len(diff.unchanged_chunks) = Len(pass[u].content) - 1

\* Claim C6 as stated: whenever exactly one chunk's text changes between two
\* passes, the second diff has one added, one removed and k - 1 unchanged chunks.
C6_OneChangeAlways ==
    \A u \in Urls : Diffed(u) /\ OneChunkChanged(u) => OneAddedOneRemoved(u)

\* Claim C6, amended: it does when the new text is the text of no chunk of the
\* first pass and the old text was the text of no other chunk.
C6_OneChangeOfFreshText ==
    \A u \in Urls :
        (/\ Diffed(u)
         /\ OneChunkChanged(u)
         /\ pass[u].content[ChangedIndex(u)] \notin Range(reconciled[u].content)
         /\ \A j \in DOMAIN pass[u].content :
                j # ChangedIndex(u) =>
                    reconciled[u].content[j] # reconciled[u].content[ChangedIndex(u)])
        => OneAddedOneRemoved(u)

\* C6's case: a second pass over three chunks, one of them changed to a fresh
\* text.
C6_Witness ==
    \E u \in Urls :
        /\ Diffed(u)
        /\ OneChunkChanged(u)
        /\ Len(pass[u].content) = 3
        /\ pass[u].content[ChangedIndex(u)] \notin Range(reconciled[u].content)
        /\ Len(pass[u].article_diff.unchanged_chunks) = 2

\* Claim C7: with no previous metadata document, or one with no chunk, every
\* current chunk is added, in order, and nothing is removed or unchanged.
C7_NoPreviousAllAdded ==
    \A u \in Urls : Diffed(u) /\ PrevHashes(u) = {} =>
        /\ pass[u].article_diff.new_chunks = pass[u].chunked_article
        /\ pass[u].article_diff.deleted_chunks = <<>>
        /\ pass[u].article_diff.unchanged_chunks = <<>>

\* C7's case: the first diff of an article with chunks.
C7_Witness ==
    \E u \in Urls :
        /\ Diffed(u)
        /\ PrevDoc(u) = {}
        /\ Len(pass[u].chunked_article) > 1

\* ---------------------------------------------------- the store stage alone
\* The texts n+1 .. n+m.
TextsFrom(n, m) == [i \in 1..m |-> n + i]

\* The article u1 enters the store stage with n chunks to insert and m to
\* delete, for any n, m <= MaxUnits: its stored version had the m texts, the
\* version of this pass has n others.
InitBatch ==
    \E n \in 0..MaxUnits, m \in 0..MaxUnits :
        LET before == TextsFrom(MaxUnits, m)
            texts  == TextsFrom(0, n)
            doc    == from_chunked_article("u1", chunks_of(before))
            diff   == chunk_diff_of("u1", chunks_of(texts), {doc})
        IN  /\ METADATA_COLLECTION = {doc}
            /\ EMBEDDING_COLLECTION = embeddings_of("u1", chunks_of(before))
            /\ SUGGESTIONS_COLLECTION = {}
            /\ RECENT_ARTICLES = <<>>
            /\ METRICS = NoMetrics
            /\ pass = [u \in Urls |->
                          IF u = "u1"
                          THEN [IdlePass EXCEPT
                                   !.pc = "insert", !.content = texts,
                                   !.chunked_article = chunks_of(texts),
                                   !.article_diff = diff,
                                   !.vectored_diff = vectored_diff_of(diff)]
                          ELSE IdlePass]
            /\ reconciled = [u \in Urls |->
                                IF u = "u1" THEN [done |-> TRUE, content |-> before]
                                ELSE NotReconciled]
            /\ passes = 1
            /\ NoPipeline

NextBatch == \E u \in Urls : store_article_diff(u)

SpecBatch == InitBatch /\ [][NextBatch]_vars

\* ------------------------------------------------- the store stage's claims
AfterDiff == {"vectorize", "insert", "delete", "upsert", "recent", "suggest"}
AfterInsert == {"delete", "upsert", "recent", "suggest", "completed"}
AfterDelete == {"upsert", "recent", "suggest", "completed"}
AfterUpsert == {"recent", "suggest", "completed"}

\* The requests of u's pass to the embedding collection, by operation.
Requests(u, op) == SelectSeq(pass[u].requests, LAMBDA r : r.op = op)

\* u's pass is over the text its last completed pass reconciled.
SameContent(u) == reconciled[u].done /\ pass[u].content = reconciled[u].content

\* Claim C4: a pass over the content the article's last completed pass stored
\* finds nothing added and nothing removed, every current chunk unchanged, and
\* sends no insert and no delete to the embedding collection.
C4_SameContentNoChange ==
    \A u \in Urls : pass[u].pc \in AfterDiff /\ SameContent(u) =>
        /\ pass[u].article_diff.new_chunks = <<>>
        /\ pass[u].article_diff.deleted_chunks = <<>>
        /\ pass[u].article_diff.unchanged_chunks = pass[u].chunked_article
        /\ pass[u].requests = <<>>

\* C4's case: a second pass over the same chunks is through insert and delete.
C4_Witness ==
    \E u \in Urls :
        /\ pass[u].pc = "suggest"
        /\ SameContent(u)
        /\ Len(pass[u].chunked_article) > 1
        /\ pass[u].requests = <<>>

\* Claim C5: once the store stage has written the metadata, the article's
\* snapshot holds exactly the hashes of the chunks of this pass, added and
\* unchanged, and none of the removed ones.
C5_SnapshotIsCurrent ==
    \A u \in Urls : pass[u].pc \in AfterUpsert =>
        LET diff == pass[u].article_diff
        IN  /\ PrevDoc(u) # {}
            /\ PrevHashes(u) = hashes_of(pass[u].chunked_article)
            /\ PrevHashes(u) = hashes_of(diff.new_chunks)
                                   \cup hashes_of(diff.unchanged_chunks)
            /\ PrevHashes(u) \cap {diff.deleted_chunks[i].hash :
                                      i \in DOMAIN diff.deleted_chunks} = {}

\* C5's case: a completed pass with added, unchanged and removed chunks.
C5_Witness ==
    \E u \in Urls :
        /\ pass[u].pc = "completed"
        /\ pass[u].article_diff.new_chunks # <<>>
        /\ pass[u].article_diff.unchanged_chunks # <<>>
        /\ pass[u].article_diff.deleted_chunks # <<>>

\* This step submits an insert batch of u's pass.
InsertStep(u) ==
    /\ pass[u].pc = "insert"
    /\ Len(pass'[u].requests) = Len(pass[u].requests) + 1

OnlyExistsErrors(errors) ==
    /\ errors # <<>>
    /\ \A i \in DOMAIN errors : errors[i].errorCode = DOCUMENT_ALREADY_EXISTS

OtherErrors(errors) ==
    \E i \in DOMAIN errors : errors[i].errorCode # DOCUMENT_ALREADY_EXISTS

StoredIds == {doc._id : doc \in EMBEDDING_COLLECTION}

\* Claim C8: an insert batch answered with DOCUMENT_ALREADY_EXISTS errors only
\* does not abort: its other documents are in the collection, the collision
\* counter grows by the number of errors and the loop is at its next batch; a
\* pass past the insert has submitted every insert batch, one past the delete
\* every delete batch.
C8_ExistsErrorsTolerated ==
    /\ [][\A u \in Urls :
            InsertStep(u) /\ OnlyExistsErrors(pass'[u].resp.errors) =>
                LET batch == pass'[u].requests[Len(pass'[u].requests)].ids
                    resp  == pass'[u].resp
                IN  /\ pass'[u].pc = "insert"
                    /\ pass'[u].batch_count = pass[u].batch_count + 1
                    /\ Range(batch) \subseteq StoredIds'
                    /\ resp.insertedIds = Range(batch) \ StoredIds
                    /\ StoredIds' = StoredIds \cup resp.insertedIds
                    /\ METRICS'.chunk_collision
                           = METRICS.chunk_collision + Len(resp.errors)]_vars
    /\ [](\A u \in Urls :
            /\ pass[u].pc \in AfterInsert =>
                   Len(Requests(u, "insert_many")) =
                       batch_total(pass[u].vectored_diff.new_chunks, 20)
            /\ pass[u].pc \in AfterDelete =>
                   Len(Requests(u, "delete_many")) =
                       batch_total(pass[u].vectored_diff.deleted_chunks, 20))

\* C8's case: a completed pass whose first insert batch collided and whose
\* second was submitted after it, followed by a delete.
C8_Witness ==
    \E u \in Urls :
        /\ pass[u].pc = "completed"
        /\ Len(pass[u].requests) = 3
        /\ pass[u].requests[1].op = "insert_many"
        /\ OnlyExistsErrors(pass[u].requests[1].errors)
        /\ pass[u].requests[2].op = "insert_many"
        /\ pass[u].requests[3].op = "delete_many"

\* The snapshot the store holds of u is the one its last completed pass wrote.
SnapshotOfReconciled(u) ==
    PrevDoc(u) = IF reconciled[u].done
                 THEN {from_chunked_article(u, chunks_of(reconciled[u].content))}
                 ELSE {}

\* Claim C9: an insert batch answered with an error other than
\* DOCUMENT_ALREADY_EXISTS fails the pass in that step, which rolls nothing
\* back and writes neither metadata nor recent articles; a failed pass has sent
\* no batch after the failing one and no delete, takes no further step, and
\* leaves the article's snapshot as its last completed pass wrote it.
C9_OtherErrorAborts ==
    /\ [][\A u \in Urls :
            /\ InsertStep(u) /\ OtherErrors(pass'[u].resp.errors) =>
                   /\ pass'[u].pc = "failed"
                   /\ EMBEDDING_COLLECTION \subseteq EMBEDDING_COLLECTION'
                   /\ pass'[u].resp.insertedIds \subseteq StoredIds'
                   /\ UNCHANGED <<METADATA_COLLECTION, SUGGESTIONS_COLLECTION,
                                  RECENT_ARTICLES>>
            /\ pass[u].pc = "failed" /\ pass'[u].pc = "failed" =>
                   pass'[u] = pass[u]]_vars
    /\ [](\A u \in Urls : pass[u].pc = "failed" =>
            LET requests == pass[u].requests
            IN  /\ requests # <<>>
                /\ OtherErrors(requests[Len(requests)].errors)
                /\ Requests(u, "delete_many") = <<>>
                /\ \A k \in 1..(Len(requests) - 1) : ~OtherErrors(requests[k].errors)
                /\ SnapshotOfReconciled(u))

\* C9's case: a pass failed in the first of two insert batches, with chunks to
\* delete, of an article stored before.
C9_Witness ==
    \E u \in Urls :
        /\ pass[u].pc = "failed"
        /\ Len(pass[u].requests) = 1
        /\ batch_total(pass[u].vectored_diff.new_chunks, 20) = 2
        /\ pass[u].vectored_diff.deleted_chunks # <<>>
        /\ pass[u].resp.insertedIds # {}
        /\ reconciled[u].done

\* The k-th of the batches of 20 of the list `items`.
BatchOf20(items, k) ==
    [j \in 1..(Min(20 * k, Len(items)) - 20 * (k - 1)) |-> items[20 * (k - 1) + j]]

\* ceil(n / 20)
CeilOf20(n) == CHOOSE c \in 0..n : 20 * c >= n /\ 20 * c < n + 20

\* The requests of one operation are the first batches of 20 of `ids`, in
\* order, and all ceil(n / 20) of them once the loop is `over`.
BatchesOf20(requests, ids, over) ==
    /\ Len(requests) <= CeilOf20(Len(ids))
    /\ over => Len(requests) = CeilOf20(Len(ids))
    /\ \A k \in DOMAIN requests :
           /\ requests[k].ids = BatchOf20(ids, k)
           /\ k < CeilOf20(Len(ids)) => Len(requests[k].ids) = 20
           /\ k = CeilOf20(Len(ids)) => Len(requests[k].ids) = Len(ids) - 20 * (k - 1)

\* Claim C10: the insert of n chunks submits, one after another and in list
\* order, ceil(n / 20) batches, each of 20 but the last, which holds the rest,
\* and so does the delete of the removed chunks, after the insert; no batch for
\* an empty list.
C10_BatchesOfTwenty ==
    \A u \in Urls : pass[u].pc \in {"insert"} \cup AfterInsert \cup {"failed"} =>
        LET vectored == pass[u].vectored_diff
            inserts  == Requests(u, "insert_many")
            deletes  == Requests(u, "delete_many")
        IN  /\ pass[u].requests = inserts \o deletes
            /\ BatchesOf20(inserts,
                   [i \in DOMAIN vectored.new_chunks |->
                       vectored.new_chunks[i].chunk.metadata.hash],
                   pass[u].pc \in AfterInsert)
            /\ BatchesOf20(deletes,
                   [i \in DOMAIN vectored.deleted_chunks |->
                       vectored.deleted_chunks[i].hash],
                   pass[u].pc \in AfterDelete)

\* C10's case: 45 chunks inserted in batches of 20, 20 and 5, then 45 deleted
\* in as many.
C10_Witness ==
    \E u \in Urls :
        /\ pass[u].pc = "completed"
        /\ Len(pass[u].vectored_diff.new_chunks) = 45
        /\ Len(pass[u].vectored_diff.deleted_chunks) = 45
        /\ Len(pass[u].requests) = 6
        /\ Len(pass[u].requests[1].ids) = 20
        /\ Len(pass[u].requests[2].ids) = 20
        /\ Len(pass[u].requests[3].ids) = 5
        /\ Len(pass[u].requests[6].ids) = 5

\* ------------------------------------------------ insert, then delete
\* The hashes of the removed entries of a diff.
RemovedHashes(diff) == {diff.deleted_chunks[i].hash : i \in DOMAIN diff.deleted_chunks}

\* The ids u's pass has sent in requests of one operation.
RequestIds(u, op) ==
    UNION {Range(Requests(u, op)[k].ids) : k \in DOMAIN Requests(u, op)}

\* Claim C19: in every diff result no hash is both added and removed, so no
\* pass sends an id both in an insert and in a delete, and a delete batch of a
\* pass removes no document that the pass has inserted.
C19_AddedRemovedDisjoint ==
    /\ [](\A u \in Urls :
            pass[u].pc \in AfterDiff \cup {"completed", "failed"} =>
                /\ hashes_of(pass[u].article_diff.new_chunks)
                       \cap RemovedHashes(pass[u].article_diff) = {}
                /\ RequestIds(u, "insert_many") \cap RequestIds(u, "delete_many") = {})
    /\ [][\A u \in Urls :
            pass[u].pc = "delete" /\ pass'[u] # pass[u] =>
                {doc._id : doc \in EMBEDDING_COLLECTION \ EMBEDDING_COLLECTION'}
                    \cap RequestIds(u, "insert_many") = {}]_vars

\* C19's case: a pass has inserted its added chunks and deleted its removed
\* ones, and what it inserted is in the collection.
C19_Witness ==
    \E u \in Urls :
        /\ pass[u].pc = "upsert"
        /\ Requests(u, "insert_many") # <<>>
        /\ Requests(u, "delete_many") # <<>>
        /\ RequestIds(u, "insert_many") \subseteq StoredIds

\* ------------------------------------------------ the recent articles
\* The persisted recent-articles document, none or one.
PersistedRecent == find_one(SUGGESTIONS_COLLECTION, "recent_articles")

\* No pass is between the fold of its article into the in-memory recent
\* articles and the persist of its clone.
NoneBetweenFoldAndPersist == \A u \in Urls : pass[u].pc # "suggest"

\* Claim C15 as stated: once every pass that folded its article into the
\* recent articles has persisted its clone, the persisted document holds the
\* fold of all of them, which is the in-memory value, whatever the order of the
\* folds and of the persists of different passes.
C15_NoUpdateLost ==
    NoneBetweenFoldAndPersist /\ RECENT_ARTICLES # <<>> =>
        PersistedRecent = {[_id |-> "recent_articles",
                            recent_articles |-> RECENT_ARTICLES]}

\* ------------------------------------------------ a hash of two articles
\* No pass is in flight.
NoPassInFlight == \A u \in Urls : pass[u].pc \in {"idle", "completed", "failed"}

\* No pass has aborted.
NoPassAborted == \A u \in Urls : pass[u].pc # "failed" /\ ~pass[u].before.aborted

\* Claim C20 as stated: whenever no pass is in flight and none has aborted,
\* every hash of every article's persisted snapshot is the _id of an embedding
\* document, also when two articles hold a chunk of the same hash and one of
\* them removes it.
C20_SnapshotHashesStored ==
    NoPassInFlight /\ NoPassAborted =>
        \A u \in Urls : PrevHashes(u) \subseteq StoredIds

\* ------------------------------------------------ a pass after an abort
\* The program starts over the database an earlier run left: that run
\* completed a pass of the article u1 over the chunks 1 and 2. Nothing is in
\* memory yet, and passes counts the passes of this run.
InitHeal ==
    LET before == <<1, 2>>
    IN  /\ METADATA_COLLECTION = {from_chunked_article("u1", chunks_of(before))}
        /\ EMBEDDING_COLLECTION = embeddings_of("u1", chunks_of(before))
        /\ SUGGESTIONS_COLLECTION =
               {[_id |-> "recent_articles", recent_articles |-> <<"u1">>]}
        /\ RECENT_ARTICLES = <<>>
        /\ METRICS = NoMetrics
        /\ pass = [u \in Urls |-> IdlePass]
        /\ reconciled = [u \in Urls |->
                            IF u = "u1" THEN [done |-> TRUE, content |-> before]
                            ELSE NotReconciled]
        /\ passes = 0
        /\ NoPipeline

SpecHeal == InitHeal /\ [][Next]_vars

\* u's pass is over the text of its last pass, which aborted during the insert
\* after it had inserted documents.
RerunAfterAbort(u) ==
    /\ pass[u].before.pc = "failed"
    /\ pass[u].before.inserted # {}
    /\ pass[u].before.content = pass[u].content

\* This step ends u's pass without a fatal error.
Completes(u) == pass[u].pc = "suggest" /\ pass'[u].pc = "completed"

\* Claim C17 as stated: a pass over the text of the article's last pass, which
\* aborted during the insert, ends, when it meets no fatal error, with every
\* current chunk's document in the embedding collection and the snapshot equal
\* to the current hashes; what the aborted pass inserted is again in added, and
\* no insert batch of the pass got an error other than DOCUMENT_ALREADY_EXISTS.
C17_RerunHeals ==
    [][\A u \in Urls :
          Completes(u) /\ RerunAfterAbort(u) =>
              /\ hashes_of(pass[u].chunked_article) \subseteq StoredIds'
              /\ PrevHashes(u)' = hashes_of(pass[u].chunked_article)
              /\ pass[u].before.inserted
                     \subseteq hashes_of(pass[u].article_diff.new_chunks)
              /\ \A k \in DOMAIN pass[u].requests :
                     ~OtherErrors(pass[u].requests[k].errors)]_vars

\* ------------------------------------------------ a failing metrics sink
\* The metrics sink starts failing, at any moment.
metrics_sink_fails ==
    /\ ~METRICS.failing
    /\ METRICS' = [METRICS EXCEPT !.failing = TRUE]
    /\ UNCHANGED <<METADATA_COLLECTION, EMBEDDING_COLLECTION,
                   SUGGESTIONS_COLLECTION, RECENT_ARTICLES, pass, reconciled, passes>>
    /\ UNCHANGED pipeline_vars

\* The metrics sink recovers, between two passes.
metrics_sink_recovers ==
    /\ METRICS.failing
    /\ \A u \in Urls : pass[u].pc \in {"idle", "completed", "failed"}
    /\ METRICS' = [METRICS EXCEPT !.failing = FALSE]
    /\ UNCHANGED <<METADATA_COLLECTION, EMBEDDING_COLLECTION,
                   SUGGESTIONS_COLLECTION, RECENT_ARTICLES, pass, reconciled, passes>>
    /\ UNCHANGED pipeline_vars

\* The passes of one article, the sink failing at times.
NextMetrics ==
    \/ metrics_sink_fails
    \/ metrics_sink_recovers
    \/ load_article("u1")
    \/ chunk_article("u1")
    \/ calc_chunk_diff("u1")
    \/ vectorize_diff("u1")
    \/ store_article_diff("u1")

SpecMetrics == Init /\ [][NextMetrics]_vars

\* Where a pass at `pc` is after its next step when nothing raises.
StagesAfter(pc) ==
    CASE pc = "chunk"     -> {"diff"}
      [] pc = "diff"      -> {"vectorize"}
      [] pc = "vectorize" -> {"insert"}
      [] pc = "insert"    -> {"insert", "delete"}
      [] pc = "delete"    -> {"delete", "upsert"}
      [] pc = "upsert"    -> {"recent"}
      [] pc = "recent"    -> {"suggest"}
      [] pc = "suggest"   -> {"completed"}
      [] OTHER            -> {"chunk"}

store_vars == <<METADATA_COLLECTION, EMBEDDING_COLLECTION, SUGGESTIONS_COLLECTION,
                RECENT_ARTICLES, METRICS, pass, reconciled, passes>>

\* process.py:239: the list of article metadata handed to the loop.
article_metadata == [i \in 1..NumArticles |-> i]

\* AsyncPipeline.put_to_first_step's answer: the pipeline takes an item while
\* it has counted fewer than max_items.
accepts(p) == p.items_count < p.max_items

\* AsyncPipeline.put_to_first_step: an item taken is counted and queued for
\* the first step.
put_to_first_step(p, item) ==
    IF accepts(p)
    THEN [p EXCEPT !.items_count = @ + 1, !.source[1] = Append(@, item)]
    ELSE p

\* The items in the pipeline that are through no last step and have not failed.
in_flight(p) ==
    UNION {Range(p.source[s]) \cup p.tasks[s] : s \in DOMAIN STEPS}

\* Mutant of process_article_metadata: the loop goes on after a refusal.
process_article_metadata_goes_on ==
    /\ feed.returned = "running"
    /\ IF feed.next > Len(article_metadata)
       THEN /\ feed' = [feed EXCEPT !.returned = "True"]
            /\ UNCHANGED pipeline
       ELSE /\ pipeline' = put_to_first_step(pipeline, article_metadata[feed.next])
            /\ feed' = [feed EXCEPT !.next = @ + 1,
                                    !.admits = Append(@, accepts(pipeline))]
    /\ UNCHANGED <<store_vars, stages>>

\* process.py:246-250, one turn of the loop: the next article is put to the
\* first step; a refusal returns False, the end of the list True.
process_article_metadata ==
    /\ feed.returned = "running"
    /\ IF feed.next > Len(article_metadata)
       THEN /\ feed' = [feed EXCEPT !.returned = "True"]
            /\ UNCHANGED pipeline
       ELSE /\ pipeline' = put_to_first_step(pipeline, article_metadata[feed.next])
            /\ feed' = IF accepts(pipeline)
                       THEN [feed EXCEPT !.next = @ + 1,
                                         !.admits = Append(@, TRUE)]
                       ELSE [feed EXCEPT !.returned = "False",
                                         !.admits = Append(@, FALSE)]
    /\ UNCHANGED <<store_vars, stages>>

\* AsyncStep: a task of step s that is free takes the first item of the
\* step's queue and starts the step's function on it.
task_gets(s, i) ==
    /\ pipeline.source[s] # <<>>
    /\ i = Head(pipeline.source[s])
    /\ Cardinality(pipeline.tasks[s]) < num_tasks[s]
    /\ pipeline' = [pipeline EXCEPT
                        !.source[s] = Tail(@),
                        !.tasks[s] = @ \cup {i},
                        !.log[i] = Append(@, <<"start", STEPS[s]>>)]
    /\ UNCHANGED <<store_vars, feed, stages>>

\* AsyncStep: the function of step s returns for item i, which goes to the
\* queue of the next step, or is through when s is the last step; the task
\* is free again.
task_returns(s, i) ==
    /\ i \in pipeline.tasks[s]
    /\ pipeline' =
           IF s = Len(STEPS)
           THEN [pipeline EXCEPT
                    !.tasks[s] = @ \ {i},
                    !.completed = @ \cup {i},
                    !.log[i] = Append(@, <<"return", STEPS[s]>>)]
           ELSE [pipeline EXCEPT
                    !.tasks[s] = @ \ {i},
                    !.source[s + 1] = Append(@, i),
                    !.log[i] = Append(@, <<"return", STEPS[s]>>)]
    /\ UNCHANGED <<store_vars, feed, stages>>

\* Mutant of task_raises: the task ends with the exception, the item stays
\* with it and the step has one task less.
task_raises_and_ends(s, i) ==
    /\ i \in pipeline.tasks[s]
    /\ i \notin pipeline.failed
    /\ pipeline' = [pipeline EXCEPT
                        !.failed = @ \cup {i},
                        !.log[i] = Append(@, <<"raise", STEPS[s]>>)]
    /\ UNCHANGED <<store_vars, feed, stages>>

\* AsyncStep: the function of step s raises for item i (process.py:181 in
\* store_article_diff), which fails that item; the task is free again.
task_raises(s, i) ==
    /\ i \in pipeline.tasks[s]
    /\ pipeline' = [pipeline EXCEPT
                        !.tasks[s] = @ \ {i},
                        !.failed = @ \cup {i},
                        !.log[i] = Append(@, <<"raise", STEPS[s]>>)]
    /\ UNCHANGED <<store_vars, feed, stages>>

\* process.py:253: a pipeline of any max_items up to the length of the list.
InitPipeline ==
    /\ METADATA_COLLECTION = {}
    /\ EMBEDDING_COLLECTION = {}
    /\ SUGGESTIONS_COLLECTION = {}
    /\ RECENT_ARTICLES = <<>>
    /\ METRICS = NoMetrics
    /\ pass = [u \in Urls |-> IdlePass]
    /\ reconciled = [u \in Urls |-> NotReconciled]
    /\ passes = 0
    /\ \E max_items \in 1..NumArticles :
           pipeline = NewPipeline(max_items, Range(article_metadata))
    /\ feed = NewFeed
    /\ stages = NewStages(0)

NextPipeline ==
    \/ process_article_metadata
    \/ \E s \in DOMAIN STEPS : \E i \in Range(article_metadata) :
           \/ task_gets(s, i)
           \/ task_returns(s, i)
           \/ task_raises(s, i)

SpecPipeline == InitPipeline /\ [][NextPipeline]_vars

\* A step of some task of the pipeline.
task_runs ==
    \E s \in DOMAIN STEPS : \E i \in Range(article_metadata) :
        task_gets(s, i) \/ task_returns(s, i) \/ task_raises(s, i)

\* The event loop does not stop while a task can run: a free task of a step
\* with a queued item can take it, and a function that was started returns or
\* raises.
FairSpecPipeline ==
    InitPipeline /\ [][NextPipeline]_vars /\ WF_vars(task_runs)

\* ------------------------------------------------ the pipeline, by number
\* AsyncPipeline.put_to_first_step: one more item is counted and waits for
\* the first step.
item_put ==
    /\ stages.items_count < stages.max_items
    /\ stages' = [stages EXCEPT !.items_count = @ + 1, !.source[1] = @ + 1]
    /\ UNCHANGED <<store_vars, pipeline, feed>>

\* AsyncStep: a free task of step s takes a waiting item.
item_taken(s) ==
    /\ stages.source[s] > 0
    /\ stages.tasks[s] < num_tasks[s]
    /\ stages' = [stages EXCEPT !.source[s] = @ - 1, !.tasks[s] = @ + 1]
    /\ UNCHANGED <<store_vars, pipeline, feed>>

\* AsyncStep: the function of step s returns for an item, which waits for the
\* next step or is through.
item_returned(s) ==
    /\ stages.tasks[s] > 0
    /\ stages' =
           IF s = Len(STEPS)
           THEN [stages EXCEPT !.tasks[s] = @ - 1]
           ELSE [stages EXCEPT !.tasks[s] = @ - 1, !.source[s + 1] = @ + 1]
    /\ UNCHANGED <<store_vars, pipeline, feed>>

\* AsyncStep: the function of step s raises for an item, which fails.
item_raised(s) ==
    /\ stages.tasks[s] > 0
    /\ stages' = [stages EXCEPT !.tasks[s] = @ - 1]
    /\ UNCHANGED <<store_vars, pipeline, feed>>

\* process.py:253: a pipeline of MaxItems items.
InitStages ==
    /\ METADATA_COLLECTION = {}
    /\ EMBEDDING_COLLECTION = {}
    /\ SUGGESTIONS_COLLECTION = {}
    /\ RECENT_ARTICLES = <<>>
    /\ METRICS = NoMetrics
    /\ pass = [u \in Urls |-> IdlePass]
    /\ reconciled = [u \in Urls |-> NotReconciled]
    /\ passes = 0
    /\ pipeline = NewPipeline(0, {})
    /\ feed = NewFeed
    /\ stages = NewStages(MaxItems)

NextStages ==
    \/ item_put
    \/ \E s \in DOMAIN STEPS : item_taken(s) \/ item_returned(s) \/ item_raised(s)

SpecStages == InitStages /\ [][NextStages]_vars

\* ------------------------------------------------ the pipeline's claims
\* Claim C11: the k-th call of put_to_first_step returns true exactly when
\* k <= max_items, the pipeline never counts more than max_items items, all of
\* them answered true, and process_article_metadata makes no call after the
\* first false: it has returned, and offers and changes nothing from then on.
C11_AdmitCap ==
    /\ [](/\ pipeline.items_count <= pipeline.max_items
          /\ \A k \in DOMAIN feed.admits :
                 feed.admits[k] = (k <= pipeline.max_items)
          /\ pipeline.items_count
                 = Cardinality({k \in DOMAIN feed.admits : feed.admits[k]})
          /\ Len(feed.admits) <= pipeline.max_items + 1
          /\ feed.returned = "False" <=>
                 Len(feed.admits) = pipeline.max_items + 1)
    /\ [][feed.returned # "running" =>
              /\ feed' = feed
              /\ pipeline'.items_count = pipeline.items_count]_vars

\* C11's case: of three articles the third was refused by a pipeline of two
\* items, and the loop has returned False.
C11_Witness ==
    /\ pipeline.max_items = 2
    /\ feed.admits = <<TRUE, TRUE, FALSE>>
    /\ feed.returned = "False"
    /\ pipeline.items_count = 2

\* The events of an item that every step's function returned for.
WholeLog ==
    <<<<"start", "load_article">>, <<"return", "load_article">>,
      <<"start", "chunk_article">>, <<"return", "chunk_article">>,
      <<"start", "calc_chunk_diff">>, <<"return", "calc_chunk_diff">>,
      <<"start", "vectorize_diff">>, <<"return", "vectorize_diff">>,
      <<"start", "store_article_diff">>, <<"return", "store_article_diff">>>>

IsPrefix(a, b) == Len(a) <= Len(b) /\ a = SubSeq(b, 1, Len(a))

\* Claim C16: the events of every item are a beginning of: load starts,
\* returns, chunk starts, returns, diff, vectorize, store likewise; or such a
\* beginning up to the start of a step, followed by that step raising. So a step
\* starts for an item only after the step before returned for it, and none
\* starts twice.
C16_StagesInOrder ==
    \A i \in DOMAIN pipeline.log :
        LET log == pipeline.log[i]
            n   == Len(log)
        IN  \/ IsPrefix(log, WholeLog)
            \/ /\ n >= 2
               /\ n <= Len(WholeLog)
               /\ SubSeq(log, 1, n - 1) = SubSeq(WholeLog, 1, n - 1)
               /\ WholeLog[n - 1][1] = "start"
               /\ log[n] = <<"raise", WholeLog[n - 1][2]>>

\* C16's case: one item is through the last step while another is in a step
\* before it and a third has failed.
C16_Witness ==
    \E i, j, k \in DOMAIN pipeline.log :
        /\ i \in pipeline.completed
        /\ pipeline.log[i] = WholeLog
        /\ j \in pipeline.tasks[2]
        /\ k \in pipeline.failed

\* The item's last event is a step raising.
Raised(i) ==
    /\ pipeline.log[i] # <<>>
    /\ pipeline.log[i][Len(pipeline.log[i])][1] = "raise"

\* The items process_article_metadata has put to the first step.
Admitted == {article_metadata[k] : k \in {n \in DOMAIN feed.admits : feed.admits[n]}}

\* Claim C12: every item the pipeline took is in the end through the last
\* step, unless a step raised for it, also when process_article_metadata has
\* returned False meanwhile: the pipeline is in the end empty, and an item it
\* took and no longer holds is through the last step, every step having
\* returned for it, or has failed by a step raising for it.
C12_AdmittedComplete ==
    /\ <>[](in_flight(pipeline) = {})
    /\ [](\A i \in Admitted \ in_flight(pipeline) :
            /\ i \in pipeline.completed \cup pipeline.failed
            /\ i \in pipeline.failed <=> Raised(i)
            /\ i \in pipeline.completed <=> pipeline.log[i] = WholeLog)

\* C12's case: the loop has returned False, nothing is through the last step
\* yet, and the two items the pipeline took are in it, one in a task of
\* store_article_diff and one waiting for chunk_article.
C12_Witness ==
    /\ feed.returned = "False"
    /\ pipeline.completed = {}
    /\ Cardinality(pipeline.tasks[5]) = 1
    /\ Len(pipeline.source[2]) = 1

\* Claim C14: the step in which a function raises for an item fails that item
\* alone: the queues, the other tasks, the other items' events and the items
\* through the last step are as before, and the task is free again; and after
\* a failure the pipeline is in the end empty, every other item it took being
\* through the last step unless a step raised for it too.
C14_FailureIsolated ==
    /\ [][\A s \in DOMAIN STEPS : \A i \in pipeline.tasks[s] :
              i \in pipeline'.failed /\ i \notin pipeline.failed =>
                  /\ pipeline'.failed = pipeline.failed \cup {i}
                  /\ pipeline'.completed = pipeline.completed
                  /\ pipeline'.source = pipeline.source
                  /\ pipeline'.tasks = [pipeline.tasks EXCEPT ![s] = @ \ {i}]
                  /\ \A j \in DOMAIN pipeline.log \ {i} :
                         pipeline'.log[j] = pipeline.log[j]]_vars
    /\ (pipeline.failed # {}) ~> (in_flight(pipeline) = {})
    /\ [](\A j \in Admitted \ in_flight(pipeline) :
            j \in pipeline.completed \/ Raised(j))

\* C14's case: store_article_diff has raised for one item while another is in
\* a task of the same step and a third waits for calc_chunk_diff.
C14_Witness ==
    /\ \E i \in pipeline.failed :
           pipeline.log[i][Len(pipeline.log[i])] = <<"raise", "store_article_diff">>
    /\ Cardinality(pipeline.failed) = 1
    /\ Cardinality(pipeline.tasks[5]) = 1
    /\ Len(pipeline.source[3]) = 1

\* The concurrency limits of load, chunk, diff, vectorize and store.
StageLimits == <<10, 2, 5, 5, 3>>

\* Claim C13: in every state each step runs its function for at most its
\* limit of items, load 10, chunk 2, diff 5, vectorize 5, store 3; and whatever
\* the other steps do, a step with an item waiting and fewer items running
\* than its limit can take the item.
C13_StageLimits ==
    /\ STEPS = <<"load_article", "chunk_article", "calc_chunk_diff",
                 "vectorize_diff", "store_article_diff">>
    /\ \A s \in DOMAIN STEPS :
           /\ stages.tasks[s] <= StageLimits[s]
           /\ stages.source[s] > 0 /\ stages.tasks[s] < StageLimits[s] =>
                  ENABLED item_taken(s)

\* C13's case: load_article runs for 10 items while chunk_article runs for 2.
C13_Witness ==
    /\ stages.tasks[1] = 10
    /\ stages.tasks[2] = 2

====
